---------------------------- MODULE Spec2Model ----------------------------
(***************************************************************************)
(* A model of emotion_transformer's training orchestration                 *)
(* (02_lightning.ipynb: the module emotion_transformer.core and main.py).  *)
(*                                                                         *)
(* Five specifications share the module:                                   *)
(*   Spec        main.py: parse the command line, dispatch on the mode,    *)
(*               run main(hparams) directly or once per search trial;      *)
(*   SpecParse   parse_args as a function of the command line;             *)
(*   SpecRepro   two executions of main(hparams) with the same hparams;    *)
(*   SpecModule  the hooks of EmotionModel that the training framework     *)
(*               calls through one epoch (the three dataloaders,           *)
(*               training_step, validation_step, validation_end);          *)
(*   SpecValEnd  validation_end as a function of the outputs it is handed. *)
(*                                                                         *)
(* Floats are modelled in fixed point, in millionths: 0.1 is 100000 and    *)
(* 2e-05 is 20.  Python's None is the empty sequence <<>> and a present    *)
(* value x is <<x>>.                                                       *)
(***************************************************************************)
EXTENDS Integers, Sequences, FiniteSets, TLC

VARIABLES
    argv,       \* main.py: the command line, a sequence of [flag, val]
    pc,         \* main.py: "parse", "dispatch", "main", "search", "exit"
    status,     \* main.py: "running", "ok", "usage_error", "exception"
    hparams,    \* main.py: the namespace parse_args returned
    search,     \* main.py: the search that was started, if any
    run,        \* the activation of main(hparams) in progress
    calls,      \* counters of what main.py has called so far
    self,       \* SpecModule: the EmotionModel and its trainer's flags
    outputs,    \* SpecModule: the validation-step outputs collected
    ret,        \* SpecModule: what the last hook returned or raised
    loaders,    \* SpecModule: the dataloader(...) calls made so far
    runs        \* SpecRepro: the two activations of main

vars == <<argv, pc, status, hparams, search, run, calls,
          self, outputs, ret, loaders, runs>>

cliVars == <<argv, pc, status, hparams, search, run, calls>>
moduleVars == <<self, outputs, ret, loaders>>

None == <<>>
Some(x) == <<x>>

Max(a, b) == IF a >= b THEN a ELSE b

Range(s) == {s[i] : i \in DOMAIN s}

\* list(range(n + 1)): one device id too many.
ListRangeInclusive(n) == [i \in 1..Max(n + 1, 0) |-> i - 1]

\* Python's list(range(n)): 0 .. n-1, empty when n <= 0.
ListRange(n) == [i \in 1..Max(n, 0) |-> i - 1]

-----------------------------------------------------------------------------
(***************************************************************************)
(* The argument parser: get_args and EmotionModel.add_model_specific_args. *)
(***************************************************************************)

Arg(flags, dest, action, type, default, choices) ==
    [flags |-> flags, dest |-> dest, action |-> action, type |-> type,
     default |-> default, choices |-> choices, tunable |-> FALSE,
     options |-> <<>>]

\* opt_list / opt_range: an argument that also declares its search options.
Opt(flags, dest, type, default, options) ==
    [flags |-> flags, dest |-> dest, action |-> "store", type |-> type,
     default |-> default, choices |-> {}, tunable |-> TRUE,
     options |-> options]

\* opt_range(low, high, nb_samples): the samples lie in [low, high]; the model
\* keeps the two ends and the midpoint.
LrLow == 10
LrHigh == 30
LrSamples == <<LrLow, (LrLow + LrHigh) \div 2, LrHigh>>

DefaultMode == "default"
DefaultBackend == "dp"

\* The choices of --mode with a third mode, test, that main.py has no branch
\* for.
ModeChoicesWithTest == {"default", "hparams_search", "test"}

ModeChoices == {"default", "hparams_search"}
BackendChoices == {"dp", "ddp", "ddp2"}

ParentArgs ==
    << Arg(<<"--mode">>, "mode", "store", "str", DefaultMode, ModeChoices),
       Arg(<<"--save-path">>, "save_path", "store", "str",
           "<cwd>/logs", {}),
       Arg(<<"--gpus">>, "gpus", "store", "int", 0, {}),
       Arg(<<"--distributed-backend">>, "distributed_backend", "store", "str",
           DefaultBackend, BackendChoices),
       Arg(<<"--use_16bit">>, "use_16bit", "store_true", "bool", FALSE, {}),
       Arg(<<"--fast_dev_run">>, "fast_dev_run", "store_true", "bool",
           FALSE, {}),
       Arg(<<"--track_grad_norm">>, "track_grad_norm", "store_true", "bool",
           FALSE, {}),
       Arg(<<"--overfit_on_subset">>, "overfit_on_subset", "store", "float",
           0, {}) >>

\* A dropout option mistyped as 2.0.
DropoutOptionsMistyped == <<50000, 100000, 2000000>>

\* options=[0.05, 0.1, 0.2]
DropoutOptions == <<50000, 100000, 200000>>

ModelArgs ==
    << Opt(<<"--bs", "--batch_size">>, "bs", "int", 40, <<10, 40, 80>>),
       Opt(<<"--max_seq_len">>, "max_seq_len", "int", 10, <<5, 10, 15>>),
       Opt(<<"--projection_size">>, "projection_size", "int", 100,
           <<50, 100, 150>>),
       Opt(<<"--dropout">>, "dropout", "float", 100000, DropoutOptions),
       Opt(<<"--n_layers">>, "n_layers", "int", 1, <<1, 2, 3>>),
       Opt(<<"--lr", "--learning_rate">>, "lr", "float", 20, LrSamples),
       Opt(<<"--layerwise_decay">>, "layerwise_decay", "float", 950000,
           <<990000, 950000, 900000>>),
       Arg(<<"--train_file">>, "train_file", "store", "str",
           "<cwd>/data/clean_train.txt", {}),
       Arg(<<"--val_file">>, "val_file", "store", "str",
           "<cwd>/data/clean_val.txt", {}),
       Arg(<<"--test_file">>, "test_file", "store", "str",
           "<cwd>/data/clean_test.txt", {}),
       Arg(<<"--epochs">>, "epochs", "store", "int", 10, {}),
       Arg(<<"--seed">>, "seed", "store", "optint", None, {}) >>

\* add_model_specific_args(parent_parser, root_dir): a parser whose parent is
\* parent_parser, so the parent's arguments come first.
add_model_specific_args(parent_parser) == parent_parser \o ModelArgs

get_args == add_model_specific_args(ParentArgs)

Dests(parser) == {parser[i].dest : i \in DOMAIN parser}

ArgOf(parser, dest) ==
    parser[CHOOSE i \in DOMAIN parser : parser[i].dest = dest]

\* The batch size's default taken from its help text, "(default: 256)".
DefaultsFromHelp(parser) ==
    [d \in Dests(parser) |->
        IF d = "bs" THEN 256 ELSE ArgOf(parser, d).default]

\* The namespace argparse starts from: every dest at its default.
Defaults(parser) == [d \in Dests(parser) |-> ArgOf(parser, d).default]

\* What int(s) and float(s) give for the strings the model puts on the command
\* line; any other string raises ValueError.  Floats are in millionths.
IntLiteral ==
    ("-1" :> -1) @@ ("0" :> 0) @@ ("1" :> 1) @@ ("2" :> 2) @@ ("3" :> 3) @@
    ("10" :> 10) @@ ("80" :> 80)

FloatLiteral ==
    ("-0.5" :> -500000) @@ ("0.2" :> 200000) @@ ("0.5" :> 500000) @@
    ("1.5" :> 1500000) @@ ("3e-05" :> 30) @@ ("2" :> 2000000)

\* type(s): the converted value, or a failure (argparse reports the ValueError
\* as a usage error).
Convert(type, s) ==
    CASE type = "str" -> [ok |-> TRUE, v |-> s]
      [] type = "int" ->
            IF s \in DOMAIN IntLiteral
            THEN [ok |-> TRUE, v |-> IntLiteral[s]]
            ELSE [ok |-> FALSE, v |-> 0]
      [] type = "optint" ->
            IF s \in DOMAIN IntLiteral
            THEN [ok |-> TRUE, v |-> Some(IntLiteral[s])]
            ELSE [ok |-> FALSE, v |-> None]
      [] type = "float" ->
            IF s \in DOMAIN FloatLiteral
            THEN [ok |-> TRUE, v |-> FloatLiteral[s]]
            ELSE [ok |-> FALSE, v |-> 0]

\* One command-line argument a = [flag, val] applied to the namespace ns:
\* argparse finds the declaration by its option string, converts the value,
\* checks it against the choices and stores it under the declaration's dest.
ParseArg(parser, ns, a) ==
    LET hits == {i \in DOMAIN parser : a.flag \in Range(parser[i].flags)} IN
    IF hits = {} THEN [ok |-> FALSE, ns |-> ns]
    ELSE
      LET d == parser[CHOOSE i \in hits : TRUE] IN
      IF d.action = "store_true"
      THEN IF a.val # None THEN [ok |-> FALSE, ns |-> ns]
           ELSE [ok |-> TRUE, ns |-> [ns EXCEPT ![d.dest] = TRUE]]
      ELSE IF a.val = None THEN [ok |-> FALSE, ns |-> ns]
      ELSE
        LET c == Convert(d.type, a.val[1]) IN
        IF ~c.ok THEN [ok |-> FALSE, ns |-> ns]
        ELSE IF d.choices # {} /\ c.v \notin d.choices
        THEN [ok |-> FALSE, ns |-> ns]
        ELSE [ok |-> TRUE, ns |-> [ns EXCEPT ![d.dest] = c.v]]

RECURSIVE ParseFrom(_, _, _)
ParseFrom(parser, ns, args) ==
    IF args = <<>> THEN [ok |-> TRUE, ns |-> ns]
    ELSE LET r == ParseArg(parser, ns, Head(args)) IN
         IF r.ok THEN ParseFrom(parser, r.ns, Tail(args)) ELSE r

\* parser.parse_args(args): the namespace, or a usage error (sys.exit(2)).
parse_args(parser, args) == ParseFrom(parser, Defaults(parser), args)

-----------------------------------------------------------------------------
(***************************************************************************)
(* EmotionModel.__init__ and main(hparams).                                *)
(***************************************************************************)

\* Bounds of the model.
MaxEntropy == 1     \* an unseeded generator starts in one of 0..MaxEntropy
MaxF1 == 2          \* a run's best validation F1 is one of 0..MaxF1
MaxArgs == 2        \* the command line holds at most MaxArgs arguments

RngStates == MaxEntropy + 2
Entropy == 0..MaxEntropy

\* torch's global generator: a draw returns the state and advances it.
Draw(g) == [value |-> g, next |-> (g + 1) % RngStates]
ManualSeed(seed) == seed % RngStates

\* The names bound in the module emotion_transformer.core: its imports and its
\* own definitions.  A name outside this set raises NameError when evaluated.
ModuleNames ==
    {"logging", "os", "torch", "pl", "HyperOptArgumentParser", "dataloader",
     "sentence_embeds_model", "context_classifier_model", "metrics",
     "f1_score", "EmotionModel", "get_args", "main"}

emo_dict == [others |-> 0, sad |-> 1, angry |-> 2, happy |-> 3]

\* emotion_transformer.model: the two sub-models keep their arguments; their
\* randomly initialised layers draw from torch's generator.
sentence_embeds_model(projection_size, dropout, g) ==
    [projection_size |-> projection_size, dropout |-> dropout,
     weights |-> Draw(g).value]

context_classifier_model(projection_size, n_layers, emo, dropout, g) ==
    [projection_size |-> projection_size, n_layers |-> n_layers,
     emo_dict |-> emo, dropout |-> dropout, weights |-> Draw(g).value]

\* EmotionModel(hparams), built while torch's generator is in state g.
EmotionModel(hp, g) ==
    [hparams |-> hp,
     emo_dict |-> emo_dict,
     sentence_embeds_model |->
        sentence_embeds_model(hp.projection_size, hp.dropout, g),
     context_classifier_model |->
        context_classifier_model(hp.projection_size, hp.n_layers, emo_dict,
                                 hp.dropout, Draw(g).next)]

\* torch's generator after EmotionModel(hparams): two draws later.
AfterModel(g) == Draw(Draw(g).next).next

\* An activation of main: pc is the statement it stands before.
IdleRun ==
    [pc |-> "idle", hparams |-> Defaults(get_args), model |-> None,
     py_rng |-> 0, torch_rng |-> 0, cudnn_deterministic |-> FALSE,
     checkpoint_callback |-> None, trainer |-> None, fitted |-> <<>>,
     f1 |-> None, trace |-> <<>>, exc |-> "", fault |-> FALSE,
     retval |-> None]

\* main(hparams) entered in a process whose generators hold e.
NewRun(hp, e) ==
    [IdleRun EXCEPT !.pc = "model", !.hparams = hp, !.py_rng = e,
                    !.torch_rng = e]

Ended(r) == r.pc \in {"returned", "raised"}

\* The statement at r.pc raises: main has no try/except, so it ends there.
Raise(r, exc, fault) ==
    [r EXCEPT !.pc = "raised", !.exc = exc, !.fault = fault,
              !.trace = Append(r.trace, r.pc)]

\* A failed call caught and tried again: main stays at the statement.
FrameworkFailureRetried(r) == {[r EXCEPT !.fault = TRUE]}

\* The framework may fail in any call (a malformed input, a device that
\* cannot be allocated).
FrameworkFails(r) == {Raise(r, "framework", TRUE)}

\* model = EmotionModel(hparams)
main_model(r) ==
    { [r EXCEPT !.pc = "seed",
                !.model = Some(EmotionModel(r.hparams, r.torch_rng)),
                !.torch_rng = AfterModel(r.torch_rng),
                !.trace = Append(r.trace, "model")] }
    \cup FrameworkFails(r)

\* if hparams.seed is not None: random.seed(..); torch.manual_seed(..);
\* torch.backends.cudnn.deterministic = True
main_seed(r) ==
    IF r.hparams.seed = None
    THEN { [r EXCEPT !.pc = "checkpoint"] }
    ELSE IF "random" \notin ModuleNames
    THEN { Raise(r, "NameError", FALSE) }
    ELSE { [r EXCEPT !.pc = "checkpoint",
                     !.py_rng = ManualSeed(r.hparams.seed[1]),
                     !.torch_rng = ManualSeed(r.hparams.seed[1]),
                     !.cudnn_deterministic = TRUE,
                     !.trace = Append(r.trace, "seed")] }

\* checkpoint_callback = pl.callbacks.ModelCheckpoint(...)
main_checkpoint(r) ==
    { [r EXCEPT !.pc = "trainer",
                !.checkpoint_callback =
                    Some([filepath |-> <<r.hparams.save_path,
                                         "model_checkpoints">>,
                          save_best_only |-> TRUE, verbose |-> TRUE,
                          monitor |-> "f1_score", mode |-> "max",
                          prefix |-> ""]),
                !.trace = Append(r.trace, "checkpoint")] }
    \cup FrameworkFails(r)

\* trainer = pl.Trainer(...)
main_trainer(r) ==
    { [r EXCEPT !.pc = "fit",
                !.trainer =
                    Some([default_save_path |-> r.hparams.save_path,
                          gpus |-> r.hparams.gpus,
                          distributed_backend |->
                              r.hparams.distributed_backend,
                          use_amp |-> r.hparams.use_16bit,
                          max_nb_epochs |-> r.hparams.epochs,
                          weights_summary |-> "top",
                          fast_dev_run |-> r.hparams.fast_dev_run,
                          track_grad_norm |->
                              IF r.hparams.track_grad_norm THEN 2 ELSE -1,
                          overfit_pct |-> r.hparams.overfit_on_subset]),
                !.trace = Append(r.trace, "trainer")] }
    \cup FrameworkFails(r)

\* main ending in "return f1": the run's best monitored f1_score.
main_return_f1(r) == r.f1

\* What main returns: it has no return statement.
main_return(r) == None

\* trainer.fit(model); the run's best monitored f1_score is f1.  main then
\* falls off its end.
main_fit(r) ==
    { [r EXCEPT !.pc = "returned",
                !.fitted = Append(r.fitted, r.model[1]),
                !.f1 = Some(f1),
                !.trace = Append(r.trace, "fit"),
                !.retval = main_return([r EXCEPT !.f1 = Some(f1)])]
      : f1 \in 0..MaxF1 }
    \cup { [x EXCEPT !.fitted = Append(r.fitted, r.model[1])]
           : x \in FrameworkFails(r) }

-----------------------------------------------------------------------------
(***************************************************************************)
(* main.py                                                                 *)
(***************************************************************************)

NbTrials == 20      \* nb_trials=20
NbWorkers == 1      \* nb_workers=1

Tok(flag, val) == [flag |-> flag, val |-> Some(val)]
Flag(flag) == [flag |-> flag, val |-> None]

\* The arguments the model puts on main.py's command line.
CliTokens ==
    { Tok("--mode", "hparams_search"), Tok("--mode", "default"),
      Tok("--mode", "test"), Tok("--gpus", "2"), Tok("--gpus", "x"),
      Tok("--dropout", "1.5"), Tok("--seed", "1"),
      Tok("--distributed-backend", "ddp2"),
      Tok("--distributed-backend", "horovod") }

SeqsUpTo(S, n) == UNION { [1..k -> S] : k \in 0..n }

NoSearch ==
    [kind |-> "none", nb_trials |-> 0, nb_workers |-> 0, gpus |-> <<>>,
     results |-> <<>>, best_f1 |-> None, kept |-> None]

NoCalls == [main |-> 0, direct |-> 0, trials |-> 0]

\* The specifications that do not run the module's hooks or a second process
\* leave these variables as they are.
ModuleIdle ==
    /\ self = [built |-> FALSE]
    /\ outputs = <<>>
    /\ ret = [hook |-> "none", raised |-> "", value |-> <<>>]
    /\ loaders = [train |-> None, val |-> None, test |-> None]

ReproIdle == runs = <<>>

Init ==
    /\ argv \in SeqsUpTo(CliTokens, MaxArgs)
    /\ pc = "parse"
    /\ status = "running"
    /\ hparams = Defaults(get_args)
    /\ search = NoSearch
    /\ run = IdleRun
    /\ calls = NoCalls
    /\ ModuleIdle
    /\ ReproIdle

\* hparams = get_args(EmotionModel); hparams = hparams.parse_args()
Parse ==
    /\ pc = "parse"
    /\ LET r == parse_args(get_args, argv) IN
       IF r.ok
       THEN /\ hparams' = r.ns
            /\ pc' = "dispatch"
            /\ status' = status
       ELSE /\ hparams' = hparams
            /\ pc' = "exit"
            /\ status' = "usage_error"
    /\ UNCHANGED <<argv, search, run, calls, moduleVars, runs>>

\* What main.py keeps of a search: the call is an expression statement, the
\* list optimize_parallel_* returns is bound to nothing.
SearchKept(results) == None

\* The if / elif of main.py, entered with the parsed namespace.
Dispatch ==
    /\ pc = "dispatch"
    /\ IF hparams.mode = "default"
       THEN /\ \E e \in Entropy : run' = NewRun(hparams, e)
            /\ pc' = "main"
            /\ calls' = [calls EXCEPT !.main = @ + 1, !.direct = @ + 1]
            /\ UNCHANGED <<search, status>>
       ELSE IF hparams.mode = "hparams_search"
       THEN /\ search' =
                 IF hparams.gpus = 0
                 THEN [NoSearch EXCEPT !.kind = "cpu",
                                       !.nb_trials = NbTrials,
                                       !.nb_workers = NbWorkers]
                 ELSE [NoSearch EXCEPT !.kind = "gpu",
                                       !.nb_trials = NbTrials,
                                       !.gpus = ListRange(hparams.gpus)]
            /\ pc' = "search"
            /\ UNCHANGED <<run, calls, status>>
       ELSE /\ pc' = "exit"
            /\ status' = "ok"
            /\ UNCHANGED <<run, calls, search>>
    /\ UNCHANGED <<argv, hparams, moduleVars, runs>>

\* main's statements, in a direct call or in a trial of the search.
InMain == pc \in {"main", "search"}

MainModel ==
    /\ InMain /\ run.pc = "model"
    /\ run' \in main_model(run)
    /\ UNCHANGED <<argv, pc, status, hparams, search, calls, moduleVars, runs>>

MainSeed ==
    /\ InMain /\ run.pc = "seed"
    /\ run' \in main_seed(run)
    /\ UNCHANGED <<argv, pc, status, hparams, search, calls, moduleVars, runs>>

MainCheckpoint ==
    /\ InMain /\ run.pc = "checkpoint"
    /\ run' \in main_checkpoint(run)
    /\ UNCHANGED <<argv, pc, status, hparams, search, calls, moduleVars, runs>>

MainTrainer ==
    /\ InMain /\ run.pc = "trainer"
    /\ run' \in main_trainer(run)
    /\ UNCHANGED <<argv, pc, status, hparams, search, calls, moduleVars, runs>>

MainFit ==
    /\ InMain /\ run.pc = "fit"
    /\ run' \in main_fit(run)
    /\ UNCHANGED <<argv, pc, status, hparams, search, calls, moduleVars, runs>>

\* The direct call main(hparams) ends: main.py has nothing after it, and an
\* exception leaves the interpreter.
MainEnd ==
    /\ pc = "main" /\ Ended(run)
    /\ pc' = "exit"
    /\ status' = IF run.pc = "raised" THEN "exception" ELSE "ok"
    /\ UNCHANGED <<argv, hparams, search, run, calls, moduleVars, runs>>

\* A trial of the search: every tunable argument takes one of its options (the
\* model draws the k-th option of each).
Trial(hp, k) ==
    [d \in DOMAIN hp |->
        IF ArgOf(get_args, d).tunable
        THEN ArgOf(get_args, d).options[k]
        ELSE hp[d]]

TrialChoices == 1..Len(LrSamples)

\* The search calls main on the next trial, in a worker process.
TrialStart ==
    /\ pc = "search" /\ run.pc = "idle"
    /\ calls.trials < search.nb_trials
    /\ \E k \in TrialChoices, e \in Entropy :
          run' = NewRun(Trial(hparams, k), e)
    /\ calls' = [calls EXCEPT !.main = @ + 1, !.trials = @ + 1]
    /\ UNCHANGED <<argv, pc, status, hparams, search, moduleVars, runs>>

BestF1(best, f1) ==
    IF f1 = None THEN best
    ELSE IF best = None THEN f1
    ELSE Some(Max(best[1], f1[1]))

\* The trial's call of main ends.  The search records what main returned; when
\* main raised, the search library either goes on with the next trial or lets
\* the exception through.
TrialEnd ==
    /\ pc = "search" /\ Ended(run)
    /\ \/ /\ search' = [search EXCEPT
                          !.results = Append(@, run.retval),
                          !.best_f1 = BestF1(@, run.f1)]
          /\ run' = IdleRun
          /\ UNCHANGED <<pc, status>>
       \/ /\ run.pc = "raised"
          /\ pc' = "exit"
          /\ status' = "exception"
          /\ UNCHANGED <<search, run>>
    /\ UNCHANGED <<argv, hparams, calls, moduleVars, runs>>

\* optimize_parallel_cpu / optimize_parallel_gpu returns.
SearchEnd ==
    /\ pc = "search" /\ run.pc = "idle"
    /\ calls.trials = search.nb_trials
    /\ search' = [search EXCEPT !.kept = SearchKept(search.results)]
    /\ pc' = "exit"
    /\ status' = "ok"
    /\ UNCHANGED <<argv, hparams, run, calls, moduleVars, runs>>

Next ==
    \/ Parse
    \/ Dispatch
    \/ MainModel
    \/ MainSeed
    \/ MainCheckpoint
    \/ MainTrainer
    \/ MainFit
    \/ MainEnd
    \/ TrialStart
    \/ TrialEnd
    \/ SearchEnd

Spec == Init /\ [][Next]_vars

-----------------------------------------------------------------------------
(***************************************************************************)
(* Tensors and their arithmetic.  A tensor is its shape and its elements;  *)
(* a number computed from tensors is a fraction n/d in lowest terms, with  *)
(* 0/0 for nan and 1/0 for inf, as torch's float division gives them.      *)
(***************************************************************************)

RECURSIVE Gcd(_, _)
Gcd(a, b) == IF b = 0 THEN a ELSE Gcd(b, a % b)

Abs(x) == IF x < 0 THEN -x ELSE x

NaN == [n |-> 0, d |-> 0]
Inf == [n |-> 1, d |-> 0]

Frac(n, d) ==
    IF d = 0 THEN (IF n = 0 THEN NaN ELSE Inf)
    ELSE LET g == Gcd(Abs(n), Abs(d))
             sg == IF d < 0 THEN -1 ELSE 1
         IN [n |-> sg * (n \div g), d |-> sg * (d \div g)]

Num(i) == [n |-> i, d |-> 1]
IsNaN(x) == x = NaN

FAdd(x, y) ==
    IF IsNaN(x) \/ IsNaN(y) THEN NaN
    ELSE IF x.d = 0 \/ y.d = 0 THEN Inf
    ELSE Frac(x.n * y.d + y.n * x.d, x.d * y.d)

FMul(x, y) ==
    IF IsNaN(x) \/ IsNaN(y) THEN NaN
    ELSE IF x.d = 0 \/ y.d = 0
    THEN (IF x.n = 0 \/ y.n = 0 THEN NaN ELSE Inf)
    ELSE Frac(x.n * y.n, x.d * y.d)

FDiv(x, y) ==
    IF IsNaN(x) \/ IsNaN(y) THEN NaN
    ELSE IF x.d = 0 THEN (IF y.d = 0 THEN NaN ELSE Inf)
    ELSE IF y.d = 0 THEN Num(0)
    ELSE Frac(x.n * y.d, x.d * y.n)

RECURSIVE SumSeq(_)
SumSeq(q) == IF q = <<>> THEN 0 ELSE Head(q) + SumSeq(Tail(q))

\* A 0-dimensional tensor holding v.
Scalar(v) == [shape |-> <<>>, data |-> <<v>>]

\* t.unsqueeze(0): one more dimension, of size 1, in front.
unsqueeze(t) == [shape |-> <<1>> \o t.shape, data |-> t.data]

torch_sum(t) == Num(SumSeq(t.data))
torch_mean(t) == Frac(SumSeq(t.data), Len(t.data))

\* The number a 0-dimensional tensor adds to a Python total.
Item(t) == Num(t.data[1])

-----------------------------------------------------------------------------
(***************************************************************************)
(* The hooks of EmotionModel.                                              *)
(***************************************************************************)

Counted == {"tp", "fp", "fn"}

\* emotion_transformer.model.metrics(loss, logits, labels): the scores of one
\* batch, each a 0-dimensional tensor.  A batch is modelled by the loss and the
\* counts that the forward pass and the confusion matrix give for it.
metrics(batch) ==
    [val_loss |-> Scalar(batch.loss), val_acc |-> Scalar(batch.acc),
     tp |-> Scalar(batch.tp), fp |-> Scalar(batch.fp),
     fn |-> Scalar(batch.fn)]

\* emotion_transformer.model.f1_score(tp, fp, fn)
f1_score(tp, fp, fn) ==
    LET precision == FDiv(tp, FAdd(tp, fp))
        recall == FDiv(tp, FAdd(tp, fn))
    IN [precision |-> precision, recall |-> recall,
        f1_score |-> FDiv(FMul(Num(2), FMul(precision, recall)),
                          FAdd(precision, recall))]

Returned(hook, v) == [hook |-> hook, raised |-> "", value |-> v]
Raised(hook, exc) == [hook |-> hook, raised |-> exc, value |-> <<>>]

DpMode(m) == m.trainer.use_dp \/ m.trainer.use_ddp2

training_step(m, batch) ==
    LET loss0 == Scalar(batch.loss)
        loss == IF DpMode(m) THEN unsqueeze(loss0) ELSE loss0
    IN Returned("training_step",
                [loss |-> loss, log |-> [train_loss |-> loss]])

\* Python: scores_dict.values and scores_dict.keys, written without the call
\* parentheses, are bound-method objects, and iterating over one raises
\* TypeError.
BoundMethodIterable == FALSE

validation_step(m, batch) ==
    LET scores_dict == metrics(batch) IN
    IF DpMode(m)
    THEN IF BoundMethodIterable
         THEN Returned("validation_step",
                       [k \in DOMAIN scores_dict |-> unsqueeze(scores_dict[k])])
         ELSE Raised("validation_step", "TypeError")
    ELSE Returned("validation_step", scores_dict)

\* The value one output adds to metric_total.
MetricValue(m, metric_name, output) ==
    IF DpMode(m)
    THEN IF metric_name \in Counted
         THEN torch_sum(output[metric_name])
         ELSE torch_mean(output[metric_name])
    ELSE Item(output[metric_name])

RECURSIVE MetricTotal(_, _, _)
MetricTotal(m, metric_name, outs) ==
    IF outs = <<>> THEN Num(0)
    ELSE FAdd(MetricValue(m, metric_name, Head(outs)),
              MetricTotal(m, metric_name, Tail(outs)))

\* Every metric averaged over the steps, the counts included.
validation_end_averaged(m, outs) ==
    IF outs = <<>> THEN Raised("validation_end", "IndexError")
    ELSE
      LET totals == [k \in DOMAIN outs[1] |->
                        FDiv(MetricTotal(m, k, outs), Num(Len(outs)))]
          prec_rec_f1 == f1_score(totals.tp, totals.fp, totals.fn)
          tqdm_dict == prec_rec_f1 @@ totals
      IN Returned("validation_end",
                  [progress_bar |-> tqdm_dict, log |-> tqdm_dict,
                   val_loss |-> tqdm_dict.val_loss])

validation_end(m, outs) ==
    IF outs = <<>> THEN Raised("validation_end", "IndexError")
    ELSE
      LET totals == [k \in DOMAIN outs[1] |->
                        IF k \in Counted
                        THEN MetricTotal(m, k, outs)
                        ELSE FDiv(MetricTotal(m, k, outs), Num(Len(outs)))]
          prec_rec_f1 == f1_score(totals.tp, totals.fp, totals.fn)
          tqdm_dict == prec_rec_f1 @@ totals
      IN Returned("validation_end",
                  [progress_bar |-> tqdm_dict, log |-> tqdm_dict,
                   val_loss |-> tqdm_dict.val_loss])

\* emotion_transformer.dataloader.dataloader(file, max_seq_len, bs, emo_dict,
\* use_ddp): the call, as the loader receives it.
dataloader(file, max_seq_len, bs, emo, use_ddp) ==
    [file |-> file, max_seq_len |-> max_seq_len, bs |-> bs,
     emo_dict |-> emo, use_ddp |-> use_ddp]

train_dataloader(m) ==
    dataloader(m.hparams.train_file, m.hparams.max_seq_len, m.hparams.bs,
               m.emo_dict, m.use_ddp)

\* The validation loader handed a label encoding of its own.
val_dataloader_relabelled(m) ==
    dataloader(m.hparams.val_file, m.hparams.max_seq_len, m.hparams.bs,
               [others |-> 0, happy |-> 1, sad |-> 2, angry |-> 3], m.use_ddp)

val_dataloader(m) ==
    dataloader(m.hparams.val_file, m.hparams.max_seq_len, m.hparams.bs,
               m.emo_dict, m.use_ddp)

test_dataloader(m) ==
    dataloader(m.hparams.test_file, m.hparams.max_seq_len, m.hparams.bs,
               m.emo_dict, m.use_ddp)

-----------------------------------------------------------------------------
(***************************************************************************)
(* SpecParse: parse_args as a function of the command line.                *)
(***************************************************************************)

\* One argument or more for every option string the parser declares, and one
\* it does not declare.
ParseTokens ==
    { Tok("--mode", "hparams_search"), Tok("--mode", "test"),
      Tok("--save-path", "out"), Tok("--gpus", "2"),
      Tok("--distributed-backend", "ddp"),
      Tok("--distributed-backend", "horovod"),
      Flag("--use_16bit"), Flag("--fast_dev_run"), Flag("--track_grad_norm"),
      Tok("--overfit_on_subset", "0.5"),
      Tok("--bs", "10"), Tok("--batch_size", "80"),
      Tok("--max_seq_len", "3"), Tok("--projection_size", "10"),
      Tok("--dropout", "0.2"), Tok("--dropout", "1.5"),
      Tok("--n_layers", "2"),
      Tok("--lr", "3e-05"), Tok("--learning_rate", "0.2"),
      Tok("--layerwise_decay", "0.5"),
      Tok("--train_file", "a.txt"), Tok("--val_file", "b.txt"),
      Tok("--test_file", "c.txt"),
      Tok("--epochs", "3"), Tok("--epochs", "many"),
      Tok("--seed", "1"), Flag("--gpus"), Tok("--verbose", "1") }

InitParse ==
    /\ argv \in SeqsUpTo(ParseTokens, MaxArgs)
    /\ pc = "parse"
    /\ status = "running"
    /\ hparams = Defaults(get_args)
    /\ search = NoSearch
    /\ run = IdleRun
    /\ calls = NoCalls
    /\ ModuleIdle
    /\ ReproIdle

SpecParse == InitParse /\ [][Parse]_vars

-----------------------------------------------------------------------------
(***************************************************************************)
(* SpecRepro: main(hparams) executed twice, in two processes, with the     *)
(* same hparams.                                                           *)
(***************************************************************************)

CliIdle ==
    /\ argv = <<>>
    /\ pc = "off"
    /\ status = "running"
    /\ hparams = Defaults(get_args)
    /\ search = NoSearch
    /\ run = IdleRun
    /\ calls = NoCalls

ReproArgs ==
    { <<>>, <<Tok("--seed", "1")>>, <<Tok("--seed", "0")>>,
      <<Tok("--seed", "1"), Tok("--dropout", "0.2")>>,
      <<Tok("--gpus", "2")>> }

InitRepro ==
    /\ CliIdle
    /\ ModuleIdle
    /\ \E a \in ReproArgs, e1 \in Entropy, e2 \in Entropy :
          LET hp == parse_args(get_args, a).ns IN
          runs = <<NewRun(hp, e1), NewRun(hp, e2)>>

ReproStep(i, succ) ==
    /\ runs' \in {[runs EXCEPT ![i] = r] : r \in succ}
    /\ UNCHANGED <<cliVars, moduleVars>>

ReproModel ==
    \E i \in DOMAIN runs :
       runs[i].pc = "model" /\ ReproStep(i, main_model(runs[i]))

ReproSeed ==
    \E i \in DOMAIN runs :
       runs[i].pc = "seed" /\ ReproStep(i, main_seed(runs[i]))

ReproCheckpoint ==
    \E i \in DOMAIN runs :
       runs[i].pc = "checkpoint" /\ ReproStep(i, main_checkpoint(runs[i]))

ReproTrainer ==
    \E i \in DOMAIN runs :
       runs[i].pc = "trainer" /\ ReproStep(i, main_trainer(runs[i]))

ReproFit ==
    \E i \in DOMAIN runs :
       runs[i].pc = "fit" /\ ReproStep(i, main_fit(runs[i]))

NextRepro ==
    \/ ReproModel
    \/ ReproSeed
    \/ ReproCheckpoint
    \/ ReproTrainer
    \/ ReproFit

SpecRepro == InitRepro /\ [][NextRepro]_vars

-----------------------------------------------------------------------------
(***************************************************************************)
(* SpecModule: the training framework calls the hooks of one EmotionModel  *)
(* through one epoch.  SpecValEnd: validation_end as a function of the     *)
(* list of outputs it is handed.                                           *)
(***************************************************************************)

MaxExamples == 3    \* the counted predictions of all batches together
MaxSteps == 2       \* validation steps of an epoch
NReplicas == 2      \* replicas whose results dp / ddp2 gather into one output

\* The distributed mode the trainer derives from gpus and distributed_backend:
\* at most one flag is set.
TrainerModes ==
    { [use_dp |-> FALSE, use_ddp |-> FALSE, use_ddp2 |-> FALSE],
      [use_dp |-> TRUE, use_ddp |-> FALSE, use_ddp2 |-> FALSE],
      [use_dp |-> FALSE, use_ddp |-> TRUE, use_ddp2 |-> FALSE],
      [use_dp |-> FALSE, use_ddp |-> FALSE, use_ddp2 |-> TRUE] }

\* The module as its hooks see it: the framework has set trainer and use_ddp.
Attached(model, t) ==
    [built |-> TRUE, hparams |-> model.hparams, emo_dict |-> model.emo_dict,
     sentence_embeds_model |-> model.sentence_embeds_model,
     context_classifier_model |-> model.context_classifier_model,
     trainer |-> [use_dp |-> t.use_dp, use_ddp2 |-> t.use_ddp2],
     use_ddp |-> t.use_ddp]

\* A batch with the given counts; the model ties its loss and its accuracy
\* (in percent) to the counts.
Batch(tp, fp, fn) ==
    [tp |-> tp, fp |-> fp, fn |-> fn, loss |-> 1 + fp + fn,
     acc |-> IF tp + fp + fn = 0 THEN 100
             ELSE (100 * tp) \div (tp + fp + fn)]

BatchSize(b) == b.tp + b.fp + b.fn

BatchesUpTo(budget) ==
    { Batch(tp, fp, fn) :
        <<tp, fp, fn>> \in
            { t \in (0..budget) \X (0..budget) \X (0..budget) :
                  t[1] + t[2] + t[3] <= budget } }

\* The sequences of n batches that count at most budget predictions together.
RECURSIVE BatchSeqs(_, _)
BatchSeqs(n, budget) ==
    IF n = 0 THEN {<<>>}
    ELSE UNION { { <<b>> \o rest :
                     rest \in BatchSeqs(n - 1, budget - BatchSize(b)) }
                 : b \in BatchesUpTo(budget) }

\* dp / ddp2: the framework gathers the replicas' results of one step into one
\* output, each score a vector with one element per replica.
Gather(replicas) ==
    [k \in DOMAIN metrics(replicas[1]) |->
        [shape |-> <<Len(replicas)>>,
         data |-> [i \in DOMAIN replicas |-> metrics(replicas[i])[k].data[1]]]]

\* The lists of n outputs that validation_end can be handed in mode t.
OutputLists(t, n) ==
    IF t.use_dp \/ t.use_ddp2
    THEN { [i \in 1..n |->
               Gather(SubSeq(q, (i - 1) * NReplicas + 1, i * NReplicas))]
           : q \in BatchSeqs(n * NReplicas, MaxExamples) }
    ELSE { [i \in 1..n |-> metrics(q[i])] : q \in BatchSeqs(n, MaxExamples) }

NoRet == [hook |-> "none", raised |-> "", value |-> <<>>]
NoLoaders == [train |-> None, val |-> None, test |-> None]

ModuleConfigs == {Defaults(get_args)} \cup
                 {Trial(Defaults(get_args), k) : k \in TrialChoices}

InitModule ==
    /\ CliIdle
    /\ ReproIdle
    /\ \E hp \in ModuleConfigs, t \in TrainerModes, g \in Entropy :
          self = [Attached(EmotionModel(hp, g), t) EXCEPT !.built = TRUE]
                    @@ [phase |-> "setup"]
    /\ outputs = <<>>
    /\ ret = NoRet
    /\ loaders = NoLoaders

Running == ret.raised = ""

TrainDataloader ==
    /\ self.phase = "setup" /\ loaders.train = None
    /\ loaders' = [loaders EXCEPT !.train = Some(train_dataloader(self))]
    /\ UNCHANGED <<cliVars, runs, self, outputs, ret>>

ValDataloader ==
    /\ self.phase = "setup" /\ loaders.val = None
    /\ loaders' = [loaders EXCEPT !.val = Some(val_dataloader(self))]
    /\ UNCHANGED <<cliVars, runs, self, outputs, ret>>

TestDataloader ==
    /\ self.phase = "setup" /\ loaders.test = None
    /\ loaders' = [loaders EXCEPT !.test = Some(test_dataloader(self))]
    /\ UNCHANGED <<cliVars, runs, self, outputs, ret>>

\* The framework moves on: from fetching the loaders to the training loop,
\* from there to the validation loop.
NextPhase ==
    /\ Running
    /\ \/ /\ self.phase = "setup"
          /\ loaders.train # None /\ loaders.val # None /\ loaders.test # None
          /\ self' = [self EXCEPT !.phase = "train"]
       \/ /\ self.phase = "train"
          /\ self' = [self EXCEPT !.phase = "validate"]
    /\ ret' = NoRet
    /\ UNCHANGED <<cliVars, runs, outputs, loaders>>

TrainingStep ==
    /\ Running /\ self.phase = "train"
    /\ \E b \in BatchesUpTo(MaxExamples) : ret' = training_step(self, b)
    /\ UNCHANGED <<cliVars, runs, self, outputs, loaders>>

Examples(outs) ==
    SumSeq([i \in DOMAIN outs |->
              SumSeq(outs[i].tp.data) + SumSeq(outs[i].fp.data)
                + SumSeq(outs[i].fn.data)])

\* A validation step; the framework collects what it returns.
ValidationStep ==
    /\ Running /\ self.phase = "validate"
    /\ Len(outputs) < MaxSteps
    /\ \E b \in BatchesUpTo(MaxExamples - Examples(outputs)) :
          /\ ret' = validation_step(self, b)
          /\ outputs' = IF ret'.raised = "" THEN Append(outputs, ret'.value)
                        ELSE outputs
    /\ UNCHANGED <<cliVars, runs, self, loaders>>

ValidationEnd ==
    /\ Running /\ self.phase = "validate"
    /\ outputs # <<>>
    /\ ret' = validation_end(self, outputs)
    /\ self' = [self EXCEPT !.phase = "done"]
    /\ UNCHANGED <<cliVars, runs, outputs, loaders>>

NextModule ==
    \/ TrainDataloader
    \/ ValDataloader
    \/ TestDataloader
    \/ NextPhase
    \/ TrainingStep
    \/ ValidationStep
    \/ ValidationEnd

SpecModule == InitModule /\ [][NextModule]_vars

InitValEnd ==
    /\ CliIdle
    /\ ReproIdle
    /\ \E t \in TrainerModes, n \in 1..MaxSteps :
          /\ self = [Attached(EmotionModel(Defaults(get_args), 0), t)
                        EXCEPT !.built = TRUE] @@ [phase |-> "validate"]
          /\ outputs \in OutputLists(t, n)
    /\ ret = NoRet
    /\ loaders = NoLoaders

ApplyValidationEnd ==
    /\ ret = NoRet
    /\ ret' = validation_end(self, outputs)
    /\ UNCHANGED <<cliVars, runs, self, outputs, loaders>>

SpecValEnd == InitValEnd /\ [][ApplyValidationEnd]_vars

-----------------------------------------------------------------------------
(***************************************************************************)
(* Properties.                                                             *)
(***************************************************************************)

\* The sum of score k over every element of every output.
CountOver(outs, k) == SumSeq([i \in DOMAIN outs |-> SumSeq(outs[i][k].data)])

\* x is the fraction a/b, nan when b = 0 (a and b are counts).
IsRatio(x, a, b) ==
    IF b = 0 THEN x = NaN ELSE x.d > 0 /\ x.n * b = a * x.d

\* C1: for a non-empty list of outputs validation_end reports tp, fp and fn as
\* their sums over all steps, undivided, and precision = tp/(tp+fp), recall =
\* tp/(tp+fn) and F1 = 2*precision*recall/(precision+recall) of those totals
\* (which is 2tp/(2tp+fp+fn) when tp > 0 and nan when tp = 0).  The run
\* recorded in the notebook, tp=3 fp=37 fn=5, gives 0.075, 0.375 and 0.125.
C1_ValidationEndAccumulates ==
    /\ f1_score(Num(3), Num(37), Num(5)) =
          [precision |-> Frac(75, 1000), recall |-> Frac(375, 1000),
           f1_score |-> Frac(125, 1000)]
    /\ (ret.hook = "validation_end" /\ outputs # <<>>) =>
          LET TP == CountOver(outputs, "tp")
              FP == CountOver(outputs, "fp")
              FN == CountOver(outputs, "fn")
              log == ret.value.log
          IN /\ ret.raised = ""
             /\ ret.value.progress_bar = log
             /\ log.tp = Num(TP) /\ log.fp = Num(FP) /\ log.fn = Num(FN)
             /\ IsRatio(log.precision, TP, TP + FP)
             /\ IsRatio(log.recall, TP, TP + FN)
             /\ IF TP = 0 THEN log.f1_score = NaN
                ELSE IsRatio(log.f1_score, 2 * TP, 2 * TP + FP + FN)
             /\ log.f1_score =
                   FDiv(FMul(Num(2), FMul(log.precision, log.recall)),
                        FAdd(log.precision, log.recall))

\* C1's case: two steps that each count a true positive, and a false positive
\* among them, aggregated.
C1_Witness ==
    /\ ret.hook = "validation_end"
    /\ Len(outputs) = 2
    /\ SumSeq(outputs[1].tp.data) > 0 /\ SumSeq(outputs[2].tp.data) > 0
    /\ CountOver(outputs, "fp") > 0
    /\ ret.value.log.tp = Num(2)

\* C2: main.py does one of three things.  In mode default it calls main once,
\* directly, and starts no search; in mode hparams_search it never calls main
\* directly and starts a search of 20 trials: with gpus = 0 a CPU search with
\* 1 worker, otherwise a GPU search over exactly the device ids 0..gpus-1.
C2_OneActionPerInvocation ==
    IF pc \in {"parse", "dispatch"} \/ status = "usage_error"
    THEN calls = NoCalls /\ search = NoSearch /\ run = IdleRun
    ELSE
      /\ hparams.mode \in {"default", "hparams_search"}
      /\ hparams.mode = "default" =>
            /\ calls.direct = 1 /\ calls.main = 1 /\ calls.trials = 0
            /\ search = NoSearch
      /\ hparams.mode = "hparams_search" =>
            /\ calls.direct = 0 /\ calls.main = calls.trials
            /\ calls.trials <= 20
            /\ search.nb_trials = 20
            /\ (pc = "exit" /\ status = "ok") => calls.trials = 20
            /\ IF hparams.gpus = 0
               THEN search.kind = "cpu" /\ search.nb_workers = 1
               ELSE /\ search.kind = "gpu"
                    /\ Len(search.gpus) = Max(hparams.gpus, 0)
                    /\ \A i \in DOMAIN search.gpus : search.gpus[i] = i - 1

\* C2's case: a GPU search on two devices has run its 20 trials.
C2_Witness ==
    /\ pc = "exit" /\ status = "ok"
    /\ search.kind = "gpu" /\ search.gpus = <<0, 1>>
    /\ calls.trials = 20 /\ calls.direct = 0

\* C3 as claimed: when a search has run all its trials, what main.py retains
\* of it is the best validation F1 any trial reached.
C3_SearchKeepsBestF1 ==
    (pc = "exit" /\ status = "ok" /\ search.kind # "none"
       /\ search.best_f1 # None)
      => search.kept = search.best_f1

\* C3 as amended: the search runs main once per trial; main returns None
\* whatever F1 the trial reached, so every result the search records is None,
\* and main.py binds the list the search returns to nothing: no configuration
\* is selected or retained by validation F1.
C3_SearchKeepsNothing ==
    search.kind # "none" =>
       /\ search.kept = None
       /\ Len(search.results) <= calls.trials
       /\ \A i \in DOMAIN search.results : search.results[i] = None
       /\ (pc = "exit" /\ status = "ok") => Len(search.results) = 20

\* C3's case: a CPU search has run all its trials, some of which reached a
\* positive F1.
C3_Witness ==
    /\ pc = "exit" /\ status = "ok"
    /\ search.kind = "cpu"
    /\ Len(search.results) = 20
    /\ search.best_f1 # None /\ search.best_f1[1] > 0

\* What an execution of main leaves behind: how it ended, the statements it
\* executed and the initial parameters of the model it built.
Outcome(r) ==
    [pc |-> r.pc, exc |-> r.exc, trace |-> r.trace,
     weights |-> IF r.model = None THEN None
                 ELSE <<r.model[1].sentence_embeds_model.weights,
                        r.model[1].context_classifier_model.weights>>]

\* C4: two executions of main with the same hparams and the same seed (not
\* None), neither disturbed by a failure of the framework, execute the same
\* statements and end alike, with the same initial model parameters.
C4_SameSeedSameOutcome ==
    (/\ Len(runs) = 2
     /\ Ended(runs[1]) /\ Ended(runs[2])
     /\ ~runs[1].fault /\ ~runs[2].fault
     /\ runs[1].hparams.seed # None)
      => Outcome(runs[1]) = Outcome(runs[2])

EmoNames == {"others", "sad", "angry", "happy"}

\* C5: emo_dict maps others, sad, angry and happy one-to-one onto 0..3, stays
\* so, and is the mapping the context classifier and every dataloader that has
\* been fetched were handed.
C5_OneLabelEncoding ==
    self.built =>
       /\ DOMAIN self.emo_dict = EmoNames
       /\ {self.emo_dict[n] : n \in EmoNames} = 0..3
       /\ self.emo_dict.others = 0 /\ self.emo_dict.sad = 1
       /\ self.emo_dict.angry = 2 /\ self.emo_dict.happy = 3
       /\ self.context_classifier_model.emo_dict = self.emo_dict
       /\ \A split \in DOMAIN loaders :
             loaders[split] # None =>
                loaders[split][1].emo_dict = self.emo_dict

\* C5's case: the three dataloaders were fetched and a validation step ran.
C5_Witness ==
    /\ self.built
    /\ loaders.train # None /\ loaders.val # None /\ loaders.test # None
    /\ ret.hook = "validation_step"

\* The value of the last --dropout on the command line, None when there is
\* none.
RECURSIVE SuppliedDropout(_)
SuppliedDropout(args) ==
    IF args = <<>> THEN None
    ELSE LET a == args[Len(args)] IN
         IF a.flag = "--dropout" THEN Some(FloatLiteral[a.val[1]])
         ELSE SuppliedDropout(SubSeq(args, 1, Len(args) - 1))

\* C6 as claimed: every configuration passed to EmotionModel has its dropout
\* in [0, 1].
C6_DropoutInUnitRange ==
    run.pc # "idle" =>
       (0 <= run.hparams.dropout /\ run.hparams.dropout <= 1000000)

\* C6 as amended: a configuration taken from the defaults or generated as a
\* trial of the search has its dropout among 0.05, 0.1 and 0.2, so in [0, 1];
\* a dropout supplied on the command line of a direct run is passed on as it
\* was given, in the range or not.
C6_DropoutRangeUnlessSupplied ==
    run.pc # "idle" =>
       IF search.kind # "none" \/ SuppliedDropout(argv) = None
       THEN /\ run.hparams.dropout \in {50000, 100000, 200000}
            /\ 0 <= run.hparams.dropout /\ run.hparams.dropout <= 1000000
       ELSE run.hparams.dropout = SuppliedDropout(argv)[1]

\* C6's case: a search started with --dropout=1.5 runs a trial whose dropout
\* is the option 0.2.
C6_Witness ==
    /\ search.kind # "none"
    /\ SuppliedDropout(argv) = Some(1500000)
    /\ run.pc = "fit"
    /\ run.hparams.dropout = 200000

NoDuplicates(q) == Cardinality(Range(q)) = Len(q)

\* C7: an error in a statement of main ends main there: the statements after it
\* are not executed, no statement is executed twice, main returns nothing; the
\* error reaches main.py, which ends with it; and in mode default main is not
\* called a second time.
C7_ErrorsPropagate ==
    /\ (run.fault \/ run.exc # "") => run.pc = "raised"
    /\ NoDuplicates(run.trace)
    /\ run.pc = "raised" =>
          LET at == run.trace[Len(run.trace)] IN
          /\ run.exc # ""
          /\ run.retval = None /\ run.f1 = None
          /\ at = "model" =>
                run.trace = <<"model">> /\ run.model = None
          /\ at \in {"model", "seed", "checkpoint"} =>
                run.checkpoint_callback = None
          /\ at \in {"model", "seed", "checkpoint", "trainer"} =>
                run.trainer = None /\ run.fitted = <<>>
          /\ at = "fit" => Len(run.fitted) = 1
    /\ (pc = "exit" /\ run.pc = "raised") => status = "exception"
    /\ hparams.mode = "default" => calls.main <= 1

\* C7's case: in mode default the construction of the trainer failed, and
\* main.py has ended with the exception.
C7_Witness ==
    /\ pc = "exit" /\ status = "exception"
    /\ hparams.mode = "default"
    /\ run.fault
    /\ run.trace = <<"model", "checkpoint", "trainer">>
    /\ calls.main = 1

\* The namespace the notebook records for parse_args(args=[]).
DocumentedDefaults ==
    [mode |-> "default", save_path |-> "<cwd>/logs", gpus |-> 0,
     distributed_backend |-> "dp", use_16bit |-> FALSE,
     fast_dev_run |-> FALSE, track_grad_norm |-> FALSE,
     overfit_on_subset |-> 0, bs |-> 40, max_seq_len |-> 10,
     projection_size |-> 100, dropout |-> 100000, n_layers |-> 1,
     lr |-> 20, layerwise_decay |-> 950000,
     train_file |-> "<cwd>/data/clean_train.txt",
     val_file |-> "<cwd>/data/clean_val.txt",
     test_file |-> "<cwd>/data/clean_test.txt",
     epochs |-> 10, seed |-> None]

Supplied(args, d) ==
    \E i \in DOMAIN args : args[i].flag \in Range(ArgOf(get_args, d).flags)

C9_StepsAddLeadingDimension ==
    /\ ret.hook = "training_step" =>
          /\ ret.raised = ""
          /\ ret.value.loss.shape = IF DpMode(self) THEN <<1>> ELSE <<>>
          /\ ret.value.log.train_loss = ret.value.loss
    /\ ret.hook = "validation_step" =>
          /\ ret.raised = ""
          /\ DOMAIN ret.value = {"val_loss", "val_acc", "tp", "fp", "fn"}
          /\ \A k \in DOMAIN ret.value :
                ret.value[k].shape = IF DpMode(self) THEN <<1>> ELSE <<>>

\* C10: an execution of main that no failure of the framework disturbs ends by
\* returning, after calling trainer.fit exactly once, on the model built from
\* its hparams; when the seed is not None it has executed the seeding before.
C10_FitReachedOnce ==
    (Ended(run) /\ ~run.fault) =>
       /\ run.pc = "returned"
       /\ Len(run.fitted) = 1
       /\ run.fitted[1] = run.model[1]
       /\ run.fitted[1].hparams = run.hparams
       /\ run.hparams.seed # None =>
             (run.trace = <<"model", "seed", "checkpoint", "trainer", "fit">>
                /\ run.cudnn_deterministic)
       /\ run.hparams.seed = None =>
             run.trace = <<"model", "checkpoint", "trainer", "fit">>

\* An argument of the command line that gives flag a value outside allowed.
GivenOutside(args, flag, allowed) ==
    \E i \in DOMAIN args :
       /\ args[i].flag = flag
       /\ args[i].val # None
       /\ args[i].val[1] \notin allowed

\* C11: once parse_args has returned a namespace, its mode is default or
\* hparams_search and its distributed_backend is dp, ddp or ddp2; a command
\* line that gives either flag another value ends in a usage error with main
\* never called and no search started; and main.py never ends normally
\* without having taken a branch of its if / elif.
C11_InvalidChoicesRejectedAtParse ==
    /\ (pc # "parse" /\ status # "usage_error") =>
          /\ hparams.mode \in {"default", "hparams_search"}
          /\ hparams.distributed_backend \in {"dp", "ddp", "ddp2"}
    /\ (pc # "parse"
          /\ (\/ GivenOutside(argv, "--mode", {"default", "hparams_search"})
              \/ GivenOutside(argv, "--distributed-backend",
                              {"dp", "ddp", "ddp2"}))) =>
          /\ pc = "exit" /\ status = "usage_error"
          /\ calls = NoCalls /\ search = NoSearch /\ run = IdleRun
    /\ status = "usage_error" =>
          calls = NoCalls /\ search = NoSearch /\ run = IdleRun
    /\ (pc = "exit" /\ status = "ok") =>
          calls.direct = 1 \/ search.kind \in {"cpu", "gpu"}

\* C11's case: --mode=hparams_search --distributed-backend=horovod has been
\* rejected by the parser, and no search was started.
C11_Witness ==
    /\ argv = <<Tok("--mode", "hparams_search"),
                Tok("--distributed-backend", "horovod")>>
    /\ pc = "exit" /\ status = "usage_error"
    /\ hparams = Defaults(get_args)
    /\ calls = NoCalls /\ search = NoSearch

=============================================================================
